---- MODULE Spec2Model ----
(***************************************************************************)
(* Model of the options-chain viewer (src/src/main.rs): the App navigation *)
(* state, its key handlers, the height allocation of                       *)
(* render_expirations_list, the columns of render_options_table and the    *)
(* draw / read-event loop of main.                                         *)
(*                                                                         *)
(* Vectors are sequences, so the Rust index i is the TLA+ index i + 1.     *)
(* An expiration is represented by options.len(), the only part of it the  *)
(* navigation and allocation code reads.                                   *)
(***************************************************************************)
EXTENDS Integers, Sequences, FiniteSets

VARIABLES app, pc, key, frame

vars == <<app, pc, key, frame>>

(* ------------------------------ bounds --------------------------------- *)

\* Largest number of expirations in a loaded chain.
MaxN == 11

\* Largest options.len() of an expiration.
MaxRows == 2

\* Largest number of expirations the operator keeps expanded at once.
MaxExpanded == 1

\* Largest height of the list area (area.height).
MaxHeight == 40

(* --------------------------- program constants ------------------------- *)

VISIBLE_ITEMS == 10

PAGE_STEP == 5

HEADER_HEIGHT == 3

TABLE_PADDING == 2

U16 == 65536

(* ------------------------------- helpers ------------------------------- *)

\* std::cmp::min
Min(a, b) == IF a <= b THEN a ELSE b

\* usize::saturating_sub
saturating_sub(a, b) == IF a >= b THEN a - b ELSE 0

\* `x as u16`
as_u16(x) == x % U16

RECURSIVE Sum(_)
Sum(s) == IF s = <<>> THEN 0 ELSE Head(s) + Sum(Tail(s))

\* Vec::len of expanded_expirations
len(a) == Len(a.expanded_expirations)

\* Vec::is_empty of expanded_expirations
is_empty(a) == len(a) = 0

(* ------------------------------ App ------------------------------------ *)

\* App::new
new(options_chain) ==
    [ options_chain        |-> options_chain,
      expanded_expirations |-> [i \in 1..Len(options_chain) |-> FALSE],
      cursor_position      |-> 0,
      scroll_offset        |-> 0,
      show_greeks          |-> TRUE ]

\* App::adjust_scroll with the second branch dropped
adjust_scroll_NoFollowDown(a) ==
    IF a.cursor_position < a.scroll_offset
    THEN [a EXCEPT !.scroll_offset = a.cursor_position]
    ELSE a

\* App::adjust_scroll with the sign of VISIBLE_ITEMS slipped
adjust_scroll_SignSlip(a) ==
    IF a.cursor_position < a.scroll_offset
    THEN [a EXCEPT !.scroll_offset = a.cursor_position]
    ELSE IF a.cursor_position >= a.scroll_offset + VISIBLE_ITEMS
         THEN [a EXCEPT !.scroll_offset = a.cursor_position + VISIBLE_ITEMS - 1]
         ELSE a

\* App::adjust_scroll without the + 1
adjust_scroll_OffByOne(a) ==
    IF a.cursor_position < a.scroll_offset
    THEN [a EXCEPT !.scroll_offset = a.cursor_position]
    ELSE IF a.cursor_position >= a.scroll_offset + VISIBLE_ITEMS
         THEN [a EXCEPT !.scroll_offset = a.cursor_position - VISIBLE_ITEMS]
         ELSE a

\* App::adjust_scroll that puts the cursor on the first row of the window
adjust_scroll_CursorToTop(a) ==
    IF a.cursor_position < a.scroll_offset
    THEN [a EXCEPT !.scroll_offset = a.cursor_position]
    ELSE IF a.cursor_position >= a.scroll_offset + VISIBLE_ITEMS
         THEN [a EXCEPT !.scroll_offset = a.cursor_position]
         ELSE a

\* App::adjust_scroll
adjust_scroll(a) ==
    IF a.cursor_position < a.scroll_offset
    THEN [a EXCEPT !.scroll_offset = a.cursor_position]
    ELSE IF a.cursor_position >= a.scroll_offset + VISIBLE_ITEMS
         THEN [a EXCEPT !.scroll_offset = a.cursor_position - VISIBLE_ITEMS + 1]
         ELSE a

\* App::toggle_current_expiration that only ever expands
toggle_current_expiration_SetOnly(a) ==
    IF a.cursor_position < len(a)
    THEN [a EXCEPT !.expanded_expirations[a.cursor_position + 1] = TRUE]
    ELSE a

\* App::toggle_current_expiration that toggles the first expiration
toggle_current_expiration_First(a) ==
    IF a.cursor_position < len(a)
    THEN [a EXCEPT !.expanded_expirations[1] = ~a.expanded_expirations[1]]
    ELSE a

\* App::toggle_current_expiration
toggle_current_expiration(a) ==
    IF a.cursor_position < len(a)
    THEN [a EXCEPT !.expanded_expirations[a.cursor_position + 1] =
                        ~a.expanded_expirations[a.cursor_position + 1]]
    ELSE a

\* App::toggle_greeks that only ever hides
toggle_greeks_HideOnly(a) == [a EXCEPT !.show_greeks = FALSE]

\* App::toggle_greeks
toggle_greeks(a) == [a EXCEPT !.show_greeks = ~a.show_greeks]

\* App::move_cursor_down that increments first and wraps only a non-empty list
move_cursor_down_WrapLate(a) ==
    adjust_scroll([a EXCEPT !.cursor_position =
        IF is_empty(a) THEN a.cursor_position + 1
        ELSE (a.cursor_position + 1) % len(a)])

\* App::move_cursor_down that stops at the last expiration instead of wrapping
move_cursor_down_NoWrap(a) ==
    IF ~is_empty(a)
    THEN adjust_scroll([a EXCEPT !.cursor_position =
                            Min(a.cursor_position + 1, len(a) - 1)])
    ELSE a

\* App::move_cursor_down
move_cursor_down(a) ==
    IF ~is_empty(a)
    THEN adjust_scroll([a EXCEPT !.cursor_position =
                            (a.cursor_position + 1) % len(a)])
    ELSE a

\* App::move_cursor_up that stops at the first expiration instead of wrapping
move_cursor_up_NoWrap(a) ==
    IF ~is_empty(a)
    THEN adjust_scroll([a EXCEPT !.cursor_position =
                            saturating_sub(a.cursor_position, 1)])
    ELSE a

\* App::move_cursor_up
move_cursor_up(a) ==
    IF ~is_empty(a)
    THEN adjust_scroll([a EXCEPT !.cursor_position =
                            (a.cursor_position + len(a) - 1) % len(a)])
    ELSE a

\* App::page_down without the clamp to the last index
page_down_NoClamp(a) ==
    IF ~is_empty(a)
    THEN adjust_scroll([a EXCEPT !.cursor_position = a.cursor_position + PAGE_STEP])
    ELSE a

\* App::page_down that wraps like move_cursor_down
page_down_Wrap(a) ==
    IF ~is_empty(a)
    THEN adjust_scroll([a EXCEPT !.cursor_position =
                            (a.cursor_position + PAGE_STEP) % len(a)])
    ELSE a

\* App::page_down
page_down(a) ==
    IF ~is_empty(a)
    THEN LET new_pos == Min(a.cursor_position + PAGE_STEP, len(a) - 1)
         IN  adjust_scroll([a EXCEPT !.cursor_position = new_pos])
    ELSE a

\* App::page_up
page_up(a) ==
    IF ~is_empty(a)
    THEN adjust_scroll([a EXCEPT !.cursor_position =
                            saturating_sub(a.cursor_position, PAGE_STEP)])
    ELSE a

(* ------------------------- render_expirations_list --------------------- *)

\* The visible range without the clamp to expirations.len().
visible_range_NoMin(a, height) ==
    LET visible_start == a.scroll_offset
        visible_end   == visible_start + height
        count         == saturating_sub(visible_end, visible_start)
    IN  [k \in 1..count |-> visible_start + k - 1]

\* The range visible_start..visible_end of render_expirations_list, as the
\* vector visible_expirations the loop pushes (empty when start >= end).
visible_range(a, height) ==
    LET visible_start == a.scroll_offset
        visible_end   == Min(Len(a.options_chain), visible_start + height)
        count         == saturating_sub(visible_end, visible_start)
    IN  [k \in 1..count |-> visible_start + k - 1]

\* The minimum height computed in the loop body for expiration i.
item_height(a, i) ==
    IF a.expanded_expirations[i + 1]
    THEN HEADER_HEIGHT + (as_u16(a.options_chain[i + 1]) + TABLE_PADDING)
    ELSE HEADER_HEIGHT

\* The surplus step, with the leftover given to the first constraint.
fill_remaining_First(constraints, total_min_height, height) ==
    IF Len(constraints) # 0 /\ total_min_height < height
    THEN [constraints EXCEPT ![1] = @ + (height - total_min_height)]
    ELSE constraints

\* The surplus step without the test that space is left.
fill_remaining_Always(constraints, total_min_height, height) ==
    IF Len(constraints) # 0
    THEN LET last_idx == Len(constraints)
         IN  [constraints EXCEPT ![last_idx] = @ + (height - total_min_height)]
    ELSE constraints

\* "If we have space left, make the last constraint take the remaining space"
fill_remaining(constraints, total_min_height, height) ==
    IF Len(constraints) # 0 /\ total_min_height < height
    THEN LET last_idx == Len(constraints)
         IN  [constraints EXCEPT ![last_idx] = @ + (height - total_min_height)]
    ELSE constraints

(* --------------------------- render_options_table --------------------- *)

\* The column widths (the table's constraints).
table_widths(show_greeks) ==
    <<10, 8, 8, 8, 8, 8>>
    \o (IF show_greeks THEN <<8, 8, 8>> ELSE << >>)
    \o <<10, 10, 8, 8, 8, 8, 8>>
    \o (IF show_greeks THEN <<8, 8, 8>> ELSE << >>)

\* The header row with the greeks hidden on the call side only.
header_cells_CallSideOnly(show_greeks) ==
    <<"Call Sym", "Bid", "Ask", "Bid Size", "Ask Size", "Volume">>
    \o (IF show_greeks THEN <<"Delta", "Gamma", "Vega">> ELSE << >>)
    \o <<"Strike", "Put Sym", "Bid", "Ask", "Bid Size", "Ask Size", "Volume">>
    \o <<"Delta", "Gamma", "Vega">>

\* The header row.
header_cells(show_greeks) ==
    <<"Call Sym", "Bid", "Ask", "Bid Size", "Ask Size", "Volume">>
    \o (IF show_greeks THEN <<"Delta", "Gamma", "Vega">> ELSE << >>)
    \o <<"Strike", "Put Sym", "Bid", "Ask", "Bid Size", "Ask Size", "Volume">>
    \o (IF show_greeks THEN <<"Delta", "Gamma", "Vega">> ELSE << >>)

\* One cell of an option row: the field of option pair `option` it shows and
\* the format it is printed with.
cell(option, field, format) ==
    [option |-> option, field |-> field, format |-> format]

\* The cells of the row of option pair `option` (1-based position in
\* expiration.options).
row_cells(show_greeks, option) ==
    << cell(option, "call.symbol", "clone"),
       cell(option, "call.bid", "{:.2}"),
       cell(option, "call.ask", "{:.2}"),
       cell(option, "call.bid_size", "to_string"),
       cell(option, "call.ask_size", "to_string"),
       cell(option, "call.volume", "to_string") >>
    \o (IF show_greeks
        THEN << cell(option, "call.greeks.delta", "{:.4}"),
                cell(option, "call.greeks.gamma", "{:.4}"),
                cell(option, "call.greeks.vega", "{:.4}") >>
        ELSE << >>)
    \o << cell(option, "strike", "{:.2}"),
          cell(option, "put.symbol", "clone"),
          cell(option, "put.bid", "{:.2}"),
          cell(option, "put.ask", "{:.2}"),
          cell(option, "put.bid_size", "to_string"),
          cell(option, "put.ask_size", "to_string"),
          cell(option, "put.volume", "to_string") >>
    \o (IF show_greeks
        THEN << cell(option, "put.greeks.delta", "{:.4}"),
                cell(option, "put.greeks.gamma", "{:.4}"),
                cell(option, "put.greeks.vega", "{:.4}") >>
        ELSE << >>)

\* render_options_table: the table drawn for expiration expiration_idx.
render_options_table(a, expiration_idx) ==
    [ widths |-> table_widths(a.show_greeks),
      header |-> header_cells(a.show_greeks),
      rows   |-> [option \in 1..a.options_chain[expiration_idx + 1] |->
                    row_cells(a.show_greeks, option)] ]

\* A collapsed expiration draws no table.
NoTable == [widths |-> << >>, header |-> << >>, rows |-> << >>]

\* render_expirations_list: what it computes from app and area.height.
render_expirations_list(a, height) ==
    LET visible_expirations == visible_range(a, height)
        mins == [k \in DOMAIN visible_expirations |->
                    item_height(a, visible_expirations[k])]
        total_min_height == Sum(mins)
        visible_start == a.scroll_offset
        visible_end   == Min(Len(a.options_chain), visible_start + height)
    IN  [ area_height         |-> height,
          visible_expirations |-> visible_expirations,
          constraints         |-> fill_remaining(mins, total_min_height, height),
          tables              |->
              [k \in DOMAIN visible_expirations |->
                  IF a.expanded_expirations[visible_expirations[k] + 1]
                  THEN render_options_table(a, visible_expirations[k])
                  ELSE NoTable],
          scroll_indicator    |-> (visible_start > 0
                                   \/ visible_end < Len(a.options_chain)) ]

(* ------------------------------- main ---------------------------------- *)

\* The chains the model loads: n expirations whose options.len() differ.
SampleChain(n) == [i \in 1..n |-> (i - 1 + n) % (MaxRows + 1)]

\* The heights of the list area the terminal can give a frame.
Heights == {0, 5, 12, MaxHeight}

\* Nothing drawn since the last event.
NoFrame ==
    [ area_height         |-> 0,
      visible_expirations |-> <<>>,
      constraints         |-> <<>>,
      tables              |-> <<>>,
      scroll_indicator    |-> FALSE ]

\* Number of expirations currently expanded.
ExpandedCount(a) ==
    Cardinality({i \in 1..len(a) : a.expanded_expirations[i]})

Init ==
    /\ \E n \in 0..MaxN : app = new(SampleChain(n))
    /\ pc = "draw"
    /\ key = "none"
    /\ frame = NoFrame

\* terminal.draw(|f| ui(f, &app))
Draw ==
    /\ pc = "draw"
    /\ \E height \in Heights : frame' = render_expirations_list(app, height)
    /\ pc' = "read"
    /\ key' = "none"
    /\ UNCHANGED app

\* terminal.draw(..)? : the draw fails and main returns through `?`
DrawError ==
    /\ pc = "draw"
    /\ pc' = "failed"
    /\ key' = "none"
    /\ frame' = NoFrame
    /\ UNCHANGED app

\* event::read()? : the read fails and main returns through `?`
ReadError ==
    /\ pc = "read"
    /\ pc' = "failed"
    /\ key' = "none"
    /\ frame' = NoFrame
    /\ UNCHANGED app

\* KeyCode::Char('q') => break
KeyQuit ==
    /\ pc = "read"
    /\ key' = "q"
    /\ pc' = "done"
    /\ frame' = NoFrame
    /\ UNCHANGED app

\* KeyCode::Char('e') | KeyCode::Enter => app.toggle_current_expiration()
KeyExpand ==
    /\ pc = "read"
    /\ ExpandedCount(toggle_current_expiration(app)) <= MaxExpanded
    /\ \E k \in {"e", "Enter"} : key' = k
    /\ app' = toggle_current_expiration(app)
    /\ pc' = "draw"
    /\ frame' = NoFrame

\* KeyCode::Char('g') => app.toggle_greeks()
KeyGreeks ==
    /\ pc = "read"
    /\ key' = "g"
    /\ app' = toggle_greeks(app)
    /\ pc' = "draw"
    /\ frame' = NoFrame

\* KeyCode::Down => app.move_cursor_down()
KeyDown ==
    /\ pc = "read"
    /\ key' = "Down"
    /\ app' = move_cursor_down(app)
    /\ pc' = "draw"
    /\ frame' = NoFrame

\* KeyCode::Up => app.move_cursor_up()
KeyUp ==
    /\ pc = "read"
    /\ key' = "Up"
    /\ app' = move_cursor_up(app)
    /\ pc' = "draw"
    /\ frame' = NoFrame

\* KeyCode::PageDown => app.page_down()
KeyPageDown ==
    /\ pc = "read"
    /\ key' = "PageDown"
    /\ app' = page_down(app)
    /\ pc' = "draw"
    /\ frame' = NoFrame

\* KeyCode::PageUp => app.page_up()
KeyPageUp ==
    /\ pc = "read"
    /\ key' = "PageUp"
    /\ app' = page_up(app)
    /\ pc' = "draw"
    /\ frame' = NoFrame

\* An unrecognised key (Esc, say) bound to break like 'q'
KeyOther_Breaks ==
    /\ pc = "read"
    /\ key' = "other"
    /\ pc' = "done"
    /\ frame' = NoFrame
    /\ UNCHANGED app

\* An unrecognised key that goes back to waiting without a redraw
KeyOther_NoRedraw ==
    /\ pc = "read"
    /\ key' = "other"
    /\ pc' = "read"
    /\ UNCHANGED <<app, frame>>

\* _ => {}
KeyOther ==
    /\ pc = "read"
    /\ key' = "other"
    /\ pc' = "draw"
    /\ frame' = NoFrame
    /\ UNCHANGED app

\* A non-key event (a resize, say) that scrolls back to the top
NonKeyEvent_ResetsScroll ==
    /\ pc = "read"
    /\ key' = "nonkey"
    /\ app' = [app EXCEPT !.scroll_offset = 0]
    /\ pc' = "draw"
    /\ frame' = NoFrame

\* event::read() returned an event that is not Event::Key
NonKeyEvent ==
    /\ pc = "read"
    /\ key' = "nonkey"
    /\ pc' = "draw"
    /\ frame' = NoFrame
    /\ UNCHANGED app

Next ==
    \/ Draw
    \/ DrawError
    \/ ReadError
    \/ KeyQuit
    \/ KeyExpand
    \/ KeyGreeks
    \/ KeyDown
    \/ KeyUp
    \/ KeyPageDown
    \/ KeyPageUp
    \/ KeyOther
    \/ NonKeyEvent

Spec == Init /\ [][Next]_vars

\* The types of the state.
TypeOK ==
    /\ pc \in {"draw", "read", "done", "failed"}
    /\ key \in {"none", "q", "e", "Enter", "g", "Down", "Up", "PageDown",
                "PageUp", "other", "nonkey"}
    /\ app.cursor_position \in Nat
    /\ app.scroll_offset \in Nat
    /\ app.show_greeks \in BOOLEAN
    /\ Len(app.expanded_expirations) = Len(app.options_chain)

(* ------------------------------ claims --------------------------------- *)

\* N: the expiration count of the loaded chain.
N == Len(app.options_chain)

\* The navigation keys of the claims about moves.
MoveKeys == {"Down", "Up", "PageDown", "PageUp"}

\* The minimum height the specification gives expiration i (0-based).
SpecMinHeight(i) ==
    IF app.expanded_expirations[i + 1] THEN 3 + app.options_chain[i + 1] + 2 ELSE 3

\* The last index (exclusive) of the specification's visible range for the
\* frame on screen.
SpecVisibleEnd ==
    IF N <= app.scroll_offset + frame.area_height
    THEN N ELSE app.scroll_offset + frame.area_height

\* The specification's minimum heights of the visible items, in order.
SpecVisibleMins ==
    [k \in 1..(IF SpecVisibleEnd > app.scroll_offset
               THEN SpecVisibleEnd - app.scroll_offset ELSE 0) |->
        SpecMinHeight(app.scroll_offset + k - 1)]

\* C1: with more than VISIBLE_ITEMS expirations, in every state reached by
\* key events, scroll_offset <= cursor_position <= scroll_offset + 9.
C1_CursorWithinScrollWindow ==
    N > VISIBLE_ITEMS =>
        /\ app.scroll_offset <= app.cursor_position
        /\ app.cursor_position <= app.scroll_offset + VISIBLE_ITEMS - 1

\* C1 witness: a move down has pushed the window off the top of a long chain,
\* the cursor sitting on the window's last row.
C1_Witness ==
    /\ N > VISIBLE_ITEMS
    /\ key \in {"Down", "PageDown"}
    /\ app.scroll_offset > 0
    /\ app.cursor_position = app.scroll_offset + VISIBLE_ITEMS - 1

\* C2: whenever a frame is drawn for a non-empty chain, the cursor's item is
\* inside the visible range [scroll_offset, min(N, scroll_offset + H)) and
\* the minimum heights from scroll_offset up to the cursor's item fit in H.
C2_CursorItemFullyVisible ==
    (pc = "read" /\ N > 0) =>
        /\ app.scroll_offset <= app.cursor_position
        /\ app.cursor_position < SpecVisibleEnd
        /\ Sum(SubSeq(SpecVisibleMins, 1,
                      app.cursor_position - app.scroll_offset + 1))
              <= frame.area_height

\* C3: for a non-empty chain the cursor is an index of the chain.
C3_CursorInRange ==
    N > 0 => app.cursor_position \in 0..(N - 1)

\* C3 witness: page-down has brought the cursor to the last expiration of
\* the longest chain.
C3_Witness ==
    /\ N = MaxN
    /\ key = "PageDown"
    /\ app.cursor_position = N - 1

\* move_cursor_down applied n times in succession.
RECURSIVE move_cursor_down_times(_, _)
move_cursor_down_times(a, n) ==
    IF n = 0 THEN a ELSE move_cursor_down_times(move_cursor_down(a), n - 1)

\* C4: from every reachable state of a non-empty chain, N successive
\* move(+1) bring the cursor back to the index it started from.
C4_MoveDownCircular ==
    N >= 1 =>
        move_cursor_down_times(app, N).cursor_position = app.cursor_position

\* C4 witness: a move down has wrapped from the last expiration to the first.
C4_Witness ==
    /\ N >= 2
    /\ key = "Down"
    /\ app.cursor_position = 0

\* C5: on a non-empty chain the Down key sets the cursor to
\* (index + 1 + N) mod N and the Up key to (index - 1 + N) mod N.
C5_MoveWrapsBothWays ==
    [][(pc = "read" /\ N >= 1) =>
          /\ key' = "Down" =>
                app'.cursor_position = (app.cursor_position + 1 + N) % N
          /\ key' = "Up" =>
                app'.cursor_position = (app.cursor_position - 1 + N) % N]_vars

\* C5 witness: a move up has wrapped from index 0 to index N - 1.
C5_Witness ==
    /\ N >= 2
    /\ key = "Up"
    /\ app.cursor_position = N - 1

\* C6: on a non-empty chain PageDown sets the cursor to min(index + 5, N - 1)
\* and PageUp to max(index - 5, 0).
C6_PageClamps ==
    [][(pc = "read" /\ N >= 1) =>
          /\ key' = "PageDown" =>
                app'.cursor_position =
                    IF app.cursor_position + 5 <= N - 1
                    THEN app.cursor_position + 5 ELSE N - 1
          /\ key' = "PageUp" =>
                app'.cursor_position =
                    IF app.cursor_position - 5 >= 0
                    THEN app.cursor_position - 5 ELSE 0]_vars

\* C6 witness: page-down on a chain shorter than a page, which can only have
\* been clamped to the last index.
C6_Witness ==
    /\ N \in 2..5
    /\ key = "PageDown"
    /\ app.cursor_position = N - 1

\* C7: on an empty chain a move, page or expand key changes no field of the
\* app state and the loop goes on to the next draw.
C7_EmptyChainNoOp ==
    [][(pc = "read" /\ N = 0 /\ key' \in MoveKeys \cup {"e", "Enter"}) =>
          (app' = app /\ pc' = "draw")]_vars

\* C7 witness: a move down has been dispatched on an empty chain.
C7_Witness ==
    /\ N = 0
    /\ key = "Down"
    /\ pc = "draw"

\* C8: in every reachable state, toggling the current expiration twice gives
\* back the state, the expanded flags included.
C8_ToggleTwiceRestores ==
    /\ toggle_current_expiration(toggle_current_expiration(app)) = app
    /\ N > 0 =>
          toggle_current_expiration(toggle_current_expiration(app))
              .expanded_expirations[app.cursor_position + 1]
            = app.expanded_expirations[app.cursor_position + 1]

\* C8 witness: the expand key has just collapsed the cursor's expiration,
\* which an earlier toggle had expanded.
C8_Witness ==
    /\ N > 0
    /\ key = "Enter"
    /\ ~app.expanded_expirations[app.cursor_position + 1]

\* C9: when the visible items' minimum heights sum to less than H, the
\* drawn constraints are those minimum heights with the surplus added to the
\* last one, and they sum to H.
C9_SurplusToLastItem ==
    (pc = "read" /\ Len(SpecVisibleMins) > 0
                 /\ Sum(SpecVisibleMins) < frame.area_height) =>
        /\ Len(frame.constraints) = Len(SpecVisibleMins)
        /\ \A k \in 1..(Len(SpecVisibleMins) - 1) :
              frame.constraints[k] = SpecVisibleMins[k]
        /\ frame.constraints[Len(SpecVisibleMins)] =
              SpecVisibleMins[Len(SpecVisibleMins)]
                + (frame.area_height - Sum(SpecVisibleMins))
        /\ Sum(frame.constraints) = frame.area_height

\* C9 witness: three collapsed expirations drawn in 12 rows get 3, 3 and 6.
C9_Witness ==
    /\ pc = "read"
    /\ frame.area_height = 12
    /\ frame.constraints = <<3, 3, 6>>

\* C10: when the visible items' minimum heights sum to H or more, every
\* drawn constraint is its item's minimum height, and none is zero or less.
C10_NoSurplusOnOverflow ==
    (pc = "read" /\ Sum(SpecVisibleMins) >= frame.area_height) =>
        /\ Len(frame.constraints) = Len(SpecVisibleMins)
        /\ \A k \in 1..Len(SpecVisibleMins) :
              /\ frame.constraints[k] = SpecVisibleMins[k]
              /\ frame.constraints[k] > 0

\* C10 witness: a frame of 12 rows showing more items than fit, one of them
\* expanded.
C10_Witness ==
    /\ pc = "read"
    /\ frame.area_height = 12
    /\ Len(frame.constraints) > 4
    /\ \E k \in 1..Len(frame.constraints) : frame.constraints[k] > 3

\* The events the dispatcher can receive.
Events == {"q", "e", "Enter", "g", "Down", "Up", "PageDown", "PageUp",
           "other", "nonkey"}

C12_UnrecognisedInputIgnored ==
    [][(pc = "read" /\ key' \in {"other", "nonkey"}) =>
          (app' = app /\ pc' = "draw")]_vars

\* C12 witness: a non-key event has been received while the list was
\* scrolled and the cursor's expiration expanded.
C12_Witness ==
    /\ key = "nonkey"
    /\ pc = "draw"
    /\ app.scroll_offset > 0
    /\ app.expanded_expirations[app.cursor_position + 1]

\* C13 (as claimed): scroll_offset is in [0, N) in every reachable state.
C13_ScrollOffsetInRange ==
    app.scroll_offset \in 0..(N - 1)

\* C13 (amended): for a non-empty chain scroll_offset is in [0, N), and for
\* an empty chain it is 0.
C13_ScrollOffsetInRangeNonEmpty ==
    /\ N > 0 => app.scroll_offset \in 0..(N - 1)
    /\ N = 0 => app.scroll_offset = 0

\* C13 witness: a long chain has been scrolled down.
C13_Witness ==
    /\ N > VISIBLE_ITEMS
    /\ app.scroll_offset = N - VISIBLE_ITEMS
    /\ key \in MoveKeys

\* A header or a row with the three greek cells of each side taken out.
WithoutGreeks(cells) == SubSeq(cells, 1, 6) \o SubSeq(cells, 10, 16)

\* The fields shown by the cells of a row.
Fields(cells) == [k \in DOMAIN cells |-> cells[k].field]

\* C14 holds of the tables t_on (greeks shown) and t_off (greeks hidden) of
\* an expiration with `rows` option pairs.
GreeksRemoved(t_on, t_off, rows) ==
    /\ Len(t_on.rows) = rows
    /\ Len(t_off.rows) = rows
    /\ Len(t_on.header) = Len(t_off.header) + 6
    /\ SubSeq(t_on.header, 7, 9) = <<"Delta", "Gamma", "Vega">>
    /\ SubSeq(t_on.header, 17, 19) = <<"Delta", "Gamma", "Vega">>
    /\ t_off.header = WithoutGreeks(t_on.header)
    /\ \A r \in 1..rows :
          /\ Len(t_on.rows[r]) = Len(t_off.rows[r]) + 6
          /\ Fields(SubSeq(t_on.rows[r], 7, 9)) =
                <<"call.greeks.delta", "call.greeks.gamma", "call.greeks.vega">>
          /\ Fields(SubSeq(t_on.rows[r], 17, 19)) =
                <<"put.greeks.delta", "put.greeks.gamma", "put.greeks.vega">>
          /\ t_off.rows[r] = WithoutGreeks(t_on.rows[r])

\* C14: the greeks key flips show_greeks, and for every expiration the table
\* without greeks is the table with greeks less the Delta, Gamma and Vega
\* cells of each side, in the header and in every row, with one row per
\* option pair; a second toggle gives back the table drawn before.
C14_GreeksColumnsToggle ==
    [][(pc = "read" /\ key' = "g") =>
          /\ app'.show_greeks = ~app.show_greeks
          /\ \A i \in 0..(N - 1) :
                /\ IF app.show_greeks
                   THEN GreeksRemoved(render_options_table(app, i),
                                      render_options_table(app', i),
                                      app.options_chain[i + 1])
                   ELSE GreeksRemoved(render_options_table(app', i),
                                      render_options_table(app, i),
                                      app.options_chain[i + 1])
                /\ render_options_table(toggle_greeks(app'), i)
                      = render_options_table(app, i)]_vars

\* C14 witness: greeks have been toggled off while an expiration with at
\* least two option pairs was expanded.
C14_Witness ==
    /\ key = "g"
    /\ ~app.show_greeks
    /\ \E i \in 1..N :
          app.expanded_expirations[i] /\ app.options_chain[i] >= 2

\* C15: every move and page step leaves scroll_offset s' computed from the
\* old offset s and the new cursor c: c if c < s, c - VISIBLE_ITEMS + 1 if
\* c >= s + VISIBLE_ITEMS, and s otherwise.
C15_ScrollReconciliation ==
    [][(pc = "read" /\ key' \in MoveKeys) =>
          app'.scroll_offset =
              IF app'.cursor_position < app.scroll_offset
              THEN app'.cursor_position
              ELSE IF app'.cursor_position >= app.scroll_offset + VISIBLE_ITEMS
                   THEN app'.cursor_position - VISIBLE_ITEMS + 1
                   ELSE app.scroll_offset]_vars

\* C15 witness: a move up has wrapped from the first to the last expiration
\* of a long chain, and the window has followed.
C15_Witness ==
    /\ N > VISIBLE_ITEMS
    /\ key = "Up"
    /\ app.cursor_position = N - 1
    /\ app.scroll_offset = N - VISIBLE_ITEMS

C17_GreeksIndependent ==
    /\ app.show_greeks = TRUE
    /\ [][pc = "read" =>
            /\ key' = "g" =>
                  app' = [app EXCEPT !.show_greeks = ~app.show_greeks]
            /\ key' # "g" => app'.show_greeks = app.show_greeks]_vars

\* C17 witness: greeks have been toggled back on, on an empty chain.
C17_Witness ==
    /\ N = 0
    /\ key = "g"
    /\ app.show_greeks
    /\ pc = "draw"

\* A step that draws a frame and goes on to wait for input.
Draws == pc = "draw" /\ pc' = "read" /\ key' = "none"

\* A step that takes one event from the wait and dispatches it.
Consumes == pc = "read" /\ pc' \in {"draw", "done"} /\ key' \in Events

\* C18: every step of the loop is a draw, the dispatch of one event, or a
\* failure; the wait for input is entered only by a draw; a draw changes no
\* state; the state changes only in a dispatch; and an event is dispatched
\* only when no earlier event is still undrawn.
C18_DrawDispatchAlternate ==
    [][/\ Draws \/ Consumes \/ pc' = "failed"
       /\ pc' = "read" => Draws
       /\ Draws => app' = app
       /\ app' # app => Consumes
       /\ Consumes => key = "none"]_vars

\* C18 witness: a frame has been drawn after a move, and the loop waits for
\* the next event.
C18_Witness ==
    /\ pc = "read"
    /\ key = "none"
    /\ app.cursor_position > 0
    /\ Len(frame.constraints) > 0

\* C19: the expanded flags are as many as the expirations, and for every
\* height the indexes the renderer visits are exactly those of
\* [scroll_offset, min(N, scroll_offset + H)), all of them in [0, N).
C19_RenderIndexesInBounds ==
    /\ Len(app.expanded_expirations) = N
    /\ \A H \in 0..MaxHeight :
          LET visited == visible_range(app, H)
              end     == IF N <= app.scroll_offset + H
                         THEN N ELSE app.scroll_offset + H
          IN  /\ Len(visited) =
                    (IF end > app.scroll_offset
                     THEN end - app.scroll_offset ELSE 0)
              /\ \A k \in DOMAIN visited :
                    /\ visited[k] = app.scroll_offset + k - 1
                    /\ visited[k] \in 0..(N - 1)
              /\ N = 0 => Len(visited) = 0
    /\ pc = "read" =>
          \A k \in DOMAIN frame.visible_expirations :
              frame.visible_expirations[k] \in 0..(N - 1)

\* C19 witness: a scrolled list drawn in an area taller than the items left,
\* so that the range ends at the last expiration.
C19_Witness ==
    /\ pc = "read"
    /\ app.scroll_offset > 0
    /\ frame.area_height = MaxHeight
    /\ Len(frame.visible_expirations) = N - app.scroll_offset

\* The cursor positions the move and page handlers hand to adjust_scroll.
NextCursors ==
    IF N = 0 THEN {}
    ELSE { (app.cursor_position + 1) % N,
           (app.cursor_position + N - 1) % N,
           IF app.cursor_position + 5 <= N - 1
              THEN app.cursor_position + 5 ELSE N - 1,
           IF app.cursor_position >= 5 THEN app.cursor_position - 5 ELSE 0 }

\* C20: scroll_offset <= max(0, N - VISIBLE_ITEMS), so it is 0 for chains of
\* at most VISIBLE_ITEMS expirations and the window ends within a longer
\* chain; and whenever adjust_scroll would take its second branch the
\* subtraction cursor_position - VISIBLE_ITEMS does not go below 0.
C20_ScrollOffsetBound ==
    /\ app.scroll_offset >= 0
    /\ app.scroll_offset <= (IF N > VISIBLE_ITEMS THEN N - VISIBLE_ITEMS ELSE 0)
    /\ N <= VISIBLE_ITEMS => app.scroll_offset = 0
    /\ N > VISIBLE_ITEMS => app.scroll_offset + VISIBLE_ITEMS - 1 <= N - 1
    /\ \A c \in NextCursors :
          c >= app.scroll_offset + VISIBLE_ITEMS => c - VISIBLE_ITEMS >= 0

\* C20 witness: page-down has reached the last expiration of the longest
\* chain, the window ending on it.
C20_Witness ==
    /\ N = MaxN
    /\ N > VISIBLE_ITEMS
    /\ key = "PageDown"
    /\ app.cursor_position = N - 1
    /\ app.scroll_offset = N - VISIBLE_ITEMS

====
